---- MODULE Spec2Model ----
(***************************************************************************)
(* Model of mq-update (src/src/main.rs): one run of main(), which locates  *)
(* the installed binary, resolves a release, selects the platform asset    *)
(* and replaces the binary through download_and_replace().                 *)
(*                                                                         *)
(* Strings are sequences of one-character strings, so that prefix tests,   *)
(* trimming, extension replacement and concatenation are computed the way  *)
(* the code computes them.  File contents are sequences of bytes.          *)
(***************************************************************************)
EXTENDS Integers, Sequences, FiniteSets, TLC

\* ---------------------------------------------------------------- bounds
\* Largest asset body, in bytes, that the registry serves in the model.
MaxBytes == 2
\* Largest number of assets attached to a release in the model.
MaxAssets == 2

\* ------------------------------------------------------- string helpers
\* Option<T>: None or Some(x)
None == <<"None">>
Some(x) == <<"Some", x>>
Unwrap(o) == o[2]

Range(s) == {s[i] : i \in 1..Len(s)}

Whitespace == {" ", "\n", "\t", "\r"}

\* str::starts_with(char)
StartsWith(s, c) == Len(s) > 0 /\ s[1] = c

\* str::trim_start_matches(char): strips EVERY leading occurrence of c
RECURSIVE TrimStartMatches(_, _)
TrimStartMatches(s, c) ==
    IF StartsWith(s, c) THEN TrimStartMatches(Tail(s), c) ELSE s

\* str::trim_start / trim_end / trim on whitespace
RECURSIVE TrimStart(_)
TrimStart(s) ==
    IF Len(s) > 0 /\ s[1] \in Whitespace THEN TrimStart(Tail(s)) ELSE s

RECURSIVE TrimEnd(_)
TrimEnd(s) ==
    IF Len(s) > 0 /\ s[Len(s)] \in Whitespace
    THEN TrimEnd(SubSeq(s, 1, Len(s) - 1)) ELSE s

Trim(s) == TrimEnd(TrimStart(s))

\* str::split_whitespace().last(): None when there is no token
SplitWhitespaceLast(s) ==
    LET t == TrimEnd(s)
        ws == {i \in 1..Len(t) : t[i] \in Whitespace}
        start == IF ws = {} THEN 1
                 ELSE 1 + (CHOOSE i \in ws : \A j \in ws : j <= i)
    IN IF Len(t) = 0 THEN None ELSE Some(SubSeq(t, start, Len(t)))

\* u8::to_ascii_lowercase on the letters the model uses
ToAsciiLower(c) ==
    CASE c = "Y" -> "y"
      [] c = "N" -> "n"
      [] c = "E" -> "e"
      [] c = "S" -> "s"
      [] OTHER -> c

\* str::eq_ignore_ascii_case
EqIgnoreAsciiCase(a, b) ==
    /\ Len(a) = Len(b)
    /\ \A i \in 1..Len(a) : ToAsciiLower(a[i]) = ToAsciiLower(b[i])

\* [String]::join(sep)
RECURSIVE Join(_, _)
Join(names, sep) ==
    IF Len(names) = 0 THEN <<>>
    ELSE IF Len(names) = 1 THEN names[1]
    ELSE names[1] \o sep \o Join(Tail(names), sep)

\* --------------------------------------------------------- path helpers
\* A path is [dir, name]; Path::with_extension only rewrites the file name.
\* Path::file_stem: the name up to its last '.', or the whole name when it
\* has no '.' or only a leading one.
FileStem(name) ==
    LET dots == {i \in 1..Len(name) : name[i] = "."}
        last == IF dots = {} THEN 0
                ELSE CHOOSE i \in dots : \A j \in dots : j <= i
    IN IF last <= 1 THEN name ELSE SubSeq(name, 1, last - 1)

\* Path::with_extension(ext): stem, then "." and ext
WithExtension(path, ext) ==
    [dir |-> path.dir, name |-> FileStem(path.name) \o <<".">> \o ext]

\* PathBuf::join
PathJoin(dir, name) == [dir |-> dir, name |-> name]

\* ------------------------------------------------------------- program data
\* main: binary_name / repo / display_name from the optional subcommand
MQ == <<"m","q">>
BinaryName(subcommand) ==
    IF subcommand = None THEN MQ ELSE MQ \o <<"-">> \o Unwrap(subcommand)

Repo(subcommand) ==
    <<"h","a","r","e","h","a","r","e","/">> \o BinaryName(subcommand)

\* get_target_arch: the triple the build was compiled for.  A host is
\* [os, arch, env] (target_os, target_arch, target_env); hosts outside the
\* cfg arms do not compile (compile_error!) and so have no run.
GetTargetArch(h) ==
    CASE h.os = "macos" /\ h.arch = "aarch64" ->
           <<"a","a","r","c","h","6","4","-","a","p","p","l","e","-","d","a","r","w","i","n">>
      [] h.os = "macos" /\ h.arch = "x86_64" ->
           <<"x","8","6","_","6","4","-","a","p","p","l","e","-","d","a","r","w","i","n">>
      [] h.os = "linux" /\ h.arch = "x86_64" /\ h.env = "musl" ->
           <<"x","8","6","_","6","4","-","u","n","k","n","o","w","n","-","l","i","n","u","x","-","m","u","s","l">>
      [] h.os = "linux" /\ h.arch = "x86_64" /\ h.env = "gnu" ->
           <<"x","8","6","_","6","4","-","u","n","k","n","o","w","n","-","l","i","n","u","x","-","g","n","u">>
      [] h.os = "linux" /\ h.arch = "x86_64" /\ h.env \notin {"musl", "gnu"} ->
           <<"x","8","6","_","6","4","-","u","n","k","n","o","w","n","-","l","i","n","u","x","-","g","n","u">>
      [] h.os = "linux" /\ h.arch = "aarch64" /\ h.env = "musl" ->
           <<"a","a","r","c","h","6","4","-","u","n","k","n","o","w","n","-","l","i","n","u","x","-","m","u","s","l">>
      [] h.os = "linux" /\ h.arch = "aarch64" /\ h.env = "gnu" ->
           <<"a","a","r","c","h","6","4","-","u","n","k","n","o","w","n","-","l","i","n","u","x","-","g","n","u">>
      [] h.os = "linux" /\ h.arch = "aarch64" /\ h.env \notin {"musl", "gnu"} ->
           <<"a","a","r","c","h","6","4","-","u","n","k","n","o","w","n","-","l","i","n","u","x","-","g","n","u">>
      [] h.os = "windows" /\ h.arch = "x86_64" ->
           <<"x","8","6","_","6","4","-","p","c","-","w","i","n","d","o","w","s","-","m","s","v","c",".","e","x","e">>

\* The cfg arms of get_target_arch under which the crate builds.
Compiles(h) ==
    \/ h.os = "macos" /\ h.arch \in {"aarch64", "x86_64"}
    \/ h.os = "linux" /\ h.arch \in {"aarch64", "x86_64"}
    \/ h.os = "windows" /\ h.arch = "x86_64"

\* #[cfg(unix)]
CfgUnix(h) == h.os \in {"macos", "linux"}

\* main: let asset_name = format!("{}-{}", binary_name, target_arch)
AssetName(binary_name, target_arch) == binary_name \o <<"-">> \o target_arch

\* Mutant of FindAsset: matches by prefix (a.name.starts_with(&asset_name)).
RECURSIVE FindAssetByPrefix(_, _)
FindAssetByPrefix(assets, asset_name) ==
    IF Len(assets) = 0 THEN None
    ELSE IF /\ Len(assets[1].name) >= Len(asset_name)
            /\ SubSeq(assets[1].name, 1, Len(asset_name)) = asset_name
         THEN Some(assets[1])
    ELSE FindAssetByPrefix(Tail(assets), asset_name)

\* release.assets.iter().find(|a| a.name == asset_name): the first asset
\* whose name equals asset_name, None when there is none.
RECURSIVE FindAsset(_, _)
FindAsset(assets, asset_name) ==
    IF Len(assets) = 0 THEN None
    ELSE IF assets[1].name = asset_name THEN Some(assets[1])
    ELSE FindAsset(Tail(assets), asset_name)

\* Mutant of AssetNames: the names are collected in reverse order.
AssetNamesReversed(assets) ==
    [i \in 1..Len(assets) |-> assets[Len(assets) + 1 - i].name]

\* release.assets.iter().map(|a| &a.name).cloned().collect()
AssetNames(assets) == [i \in 1..Len(assets) |-> assets[i].name]

\* Mutant of RequestTag: the "v" is prepended without looking at the request.
RequestTagAlwaysPrefixed(target_version) ==
    IF target_version = None THEN None
    ELSE Some(<<"v">> \o Unwrap(target_version))

\* get_latest_release: the tag asked of the registry; None asks for latest
RequestTag(target_version) ==
    IF target_version = None THEN None
    ELSE IF StartsWith(Unwrap(target_version), "v") THEN target_version
    ELSE Some(<<"v">> \o Unwrap(target_version))

\* Mutant of UpToDate: compares the current version with the raw tag.
UpToDateAgainstTag(new_install, force, cur, target) ==
    ~new_install /\ ~force /\ cur = Some(<<"v">> \o target)

\* Mutant of UpToDate: an unknown current version counts as up to date.
UpToDateUnknownCurrent(new_install, force, cur, target) ==
    ~new_install /\ ~force /\ (cur = None \/ cur = Some(target))

\* main: the up-to-date test that ends the run early
UpToDate(new_install, force, cur, target) ==
    ~new_install /\ ~force /\ cur = Some(target)

\* Mutant of Declined: only an explicit "n" cancels.
DeclinedOnlyN(line) == EqIgnoreAsciiCase(Trim(line), <<"n">>)

\* download_and_replace: the answer that cancels the update
Declined(line) ==
    Len(Trim(line)) # 0 /\ ~EqIgnoreAsciiCase(Trim(line), <<"y">>)

\* ------------------------------------------------------------ environment
\* Inputs of a run: command line, host, registry, terminal and file system.
V052 == <<"0",".","5",".","2">>
V0512 == <<"0",".","5",".","1","2">>

Subcommands ==
    {None, Some(<<"c",".","t","m","p">>), Some(<<"c",".","b","a","k">>)}
TargetVersions == {None, Some(V052), Some(<<"v">> \o V052), Some(<<"0",".","5",".","1">>)}
Hosts ==
    {[os |-> "linux", arch |-> "x86_64", env |-> "gnu"],
     [os |-> "windows", arch |-> "x86_64", env |-> "msvc"]}

\* Tags the registry holds, and the one it reports as latest.
RegistryTags == {<<"v">> \o V052, <<"v">> \o V0512}
LatestTag == <<"v">> \o V0512

\* Assets a release of binary b may carry: the linux-gnu build, a checksum
\* file whose name extends it, a name that is a prefix of it, the windows build.
CandidateAssets(b) ==
    LET gnu == AssetName(b, GetTargetArch([os |-> "linux", arch |-> "x86_64", env |-> "gnu"]))
        win == AssetName(b, GetTargetArch([os |-> "windows", arch |-> "x86_64", env |-> "msvc"]))
    IN {[name |-> gnu, browser_download_url |-> "url-gnu"],
        [name |-> gnu \o <<".","s","h","a","2","5","6">>, browser_download_url |-> "url-sha"],
        [name |-> b \o <<"-","x","8","6","_","6","4">>, browser_download_url |-> "url-prefix"],
        [name |-> win, browser_download_url |-> "url-win"]}

\* The registry keeps asset names unique within a release.
AssetLists(b) ==
    UNION {{l \in [1..n -> CandidateAssets(b)] :
              \A i, j \in 1..n : l[i].name = l[j].name => i = j} : n \in 0..MaxAssets}

\* What `<binary> --version` may print.
VersionOutputs ==
    {<<"m","q"," ">> \o V052 \o <<"\n">>,
     <<"m","q"," ">> \o V0512 \o <<"\n">>,
     <<"\n">>}

\* What the user may type at the prompt.
InputLines ==
    {<<"\n">>, <<" ","Y","\n">>, <<"n","\n">>, <<"y","e","s","\n">>}

\* File contents.  The installed binary and stale leftovers never start
\* with the first byte of a served body, so old and new are distinguishable.
Absent == [data |-> <<>>, mode |-> "absent"]
File(data, mode) == [data |-> data, mode |-> mode]
OldBytes == <<7>>
StaleBytes == <<9>>
Body(n) == [i \in 1..n |-> i]
Bodies == {Body(n) : n \in 0..MaxBytes}
Prefixes(data) == {SubSeq(data, 1, k) : k \in 0..(Len(data) - 1)}

\* Directories are sequences of components.
PathDir == <<"/usr/local/bin">>
HomeDir == <<"/home/u">>
HomeBinDir == HomeDir \o <<".mq">> \o <<"bin">>
DirPrefixes(d) == {SubSeq(d, 1, k) : k \in 1..Len(d)}

BinaryNames == {BinaryName(s) : s \in Subcommands}
AllNames ==
    UNION {{b, WithExtension(PathJoin(PathDir, b), <<"b","a","k">>).name,
               WithExtension(PathJoin(PathDir, b), <<"t","m","p">>).name} : b \in BinaryNames}
AllPaths == {PathJoin(d, n) : d \in {PathDir, HomeBinDir}, n \in AllNames}

\* ------------------------------------------------------------------ state
VARIABLES
    pc,               \* position of the run in main / download_and_replace
    args,             \* Args: subcommand, target_version, force, current
    host,             \* the platform the binary was built for
    fs,               \* file system: path -> File or Absent
    dirs,             \* directories that exist
    fs0,              \* the file system when the run started
    dirs0,            \* the directories when the run started
    binary_path,      \* main: Option<PathBuf> from get_binary_path
    is_new_install,   \* main
    current_version,  \* main: Option<String>
    release,          \* main: Release from get_latest_release
    target_version,   \* main: tag_name without leading 'v'
    asset,            \* main: the selected Asset
    install_path,     \* main
    input,            \* download_and_replace: the line read at the prompt
    response,         \* download_and_replace: body bytes not yet read
    buffer,           \* download_and_replace: bytes read so far
    exit_code,        \* process exit status once the run ended
    error,            \* the Err main returned, None otherwise
    report,           \* the final report printed
    stages,           \* the pipeline stages executed so far, in order
    procs             \* invocations running side by side; none in a single run

envVars == <<args, host, fs0, dirs0, procs>>
mainVars == <<binary_path, is_new_install, current_version, release,
              target_version, asset, install_path>>
darVars == <<input, response, buffer>>
endVars == <<exit_code, error, report>>
vars == <<pc, fs, dirs, envVars, mainVars, darVars, endVars, stages>>

binary_name == BinaryName(args.subcommand)
repo == Repo(args.subcommand)

\* download_and_replace: the two sibling paths of mq_path
backup_path == WithExtension(install_path, <<"b","a","k">>)
temp_path == WithExtension(install_path, <<"t","m","p">>)

\* Path::exists
Exists(path) == fs[path].mode # "absent"

Err(msg, detail) == [msg |-> msg, detail |-> detail]

\* Mutant of Fail: the error is recorded but the run carries on to the report.
FailAndContinue(msg, detail) ==
    /\ pc' = "report"
    /\ error' = Some(Err(msg, detail))
    /\ UNCHANGED <<exit_code, report>>

\* `?` / return Err(..) up to main, whose Err ends the process unsuccessfully
Fail(msg, detail) ==
    /\ pc' = "exit"
    /\ exit_code' = Some(1)
    /\ error' = Some(Err(msg, detail))
    /\ UNCHANGED report

\* main returning Ok(()) after printing a final report
Finish(what) ==
    /\ pc' = "exit"
    /\ exit_code' = Some(0)
    /\ report' = Some(what)
    /\ UNCHANGED error

Goto(next) ==
    /\ pc' = next
    /\ UNCHANGED endVars

Stage(name) == stages' = Append(stages, name)

\* The file system a run may start from.  The binary is on PATH or not; an
\* earlier run may have left a backup or temp file next to it; the default
\* install directory may exist and may already hold a file of that name.
InitFs(b, onPath, staleBak, staleTmp, homeFile) ==
    LET dir == IF onPath THEN PathDir ELSE HomeBinDir
        target == PathJoin(dir, b)
    IN [p \in AllPaths |->
          IF p = target /\ (onPath \/ homeFile) THEN File(OldBytes, "0o755")
          ELSE IF p = WithExtension(target, <<"b","a","k">>) /\ staleBak
               THEN File(StaleBytes, "0o755")
          ELSE IF p = WithExtension(target, <<"t","m","p">>) /\ staleTmp
               THEN File(StaleBytes, "0o644")
          ELSE Absent]

InitFrom(argSet, hostSet) ==
    /\ pc = "get_binary_path"
    /\ args \in argSet
    /\ host \in {h \in hostSet : Compiles(h)}
    /\ \E onPath, staleBak, staleTmp, homeDir, homeFile \in BOOLEAN :
         /\ onPath => (homeDir /\ ~homeFile)
         /\ (~homeDir) => (~homeFile /\ ~staleBak /\ ~staleTmp)
         /\ (~onPath) => (staleBak = staleTmp /\ (staleBak => homeFile))
         /\ fs = InitFs(BinaryName(args.subcommand), onPath, staleBak, staleTmp, homeFile)
         /\ dirs = DirPrefixes(PathDir) \cup DirPrefixes(HomeDir)
                     \cup (IF homeDir THEN DirPrefixes(HomeBinDir) ELSE {})
    /\ fs0 = fs
    /\ dirs0 = dirs
    /\ binary_path = None
    /\ is_new_install = FALSE
    /\ current_version = None
    /\ release = [tag_name |-> <<>>, assets |-> <<>>]
    /\ target_version = <<>>
    /\ asset = [name |-> <<>>, browser_download_url |-> ""]
    /\ install_path = PathJoin(<<>>, <<>>)
    /\ input = None
    /\ response = None
    /\ buffer = <<>>
    /\ exit_code = None
    /\ error = None
    /\ report = None
    /\ stages = <<>>
    /\ procs = <<>>

Args ==
    [subcommand : Subcommands, target_version : TargetVersions,
     force : BOOLEAN, current : BOOLEAN]

Init == InitFrom(Args, Hosts)

\* ------------------------------------------------------------------- main
\* get_binary_path: `which <binary_name>`
GetBinaryPath ==
    /\ pc = "get_binary_path"
    /\ Stage("locate")
    /\ \/ /\ Fail("Failed to find binary in PATH", binary_name)
          /\ UNCHANGED <<binary_path, is_new_install>>
       \/ /\ binary_path' = IF Exists(PathJoin(PathDir, binary_name))
                            THEN Some(PathJoin(PathDir, binary_name)) ELSE None
          /\ is_new_install' = (binary_path' = None)
          /\ Goto("get_binary_version")
    /\ UNCHANGED <<fs, dirs, envVars, current_version, release, target_version,
                   asset, install_path, darVars>>

\* get_binary_version: `<binary_name> --version`, last whitespace token
GetBinaryVersion ==
    /\ pc = "get_binary_version"
    /\ Stage("current_version")
    /\ IF is_new_install
       THEN /\ current_version' = None
            /\ Goto("current_flag")
       ELSE \/ /\ current_version' = None     \* spawn failed or non-zero status
               /\ Goto("current_flag")
            \/ /\ Fail("Failed to parse version output", <<>>)
               /\ UNCHANGED current_version
            \/ \E out \in VersionOutputs :
                 IF SplitWhitespaceLast(out) = None
                 THEN /\ Fail("Could not parse version from output", <<>>)
                      /\ UNCHANGED current_version
                 ELSE /\ current_version' = Some(Trim(Unwrap(SplitWhitespaceLast(out))))
                      /\ Goto("current_flag")
    /\ UNCHANGED <<fs, dirs, envVars, binary_path, is_new_install, release,
                   target_version, asset, install_path, darVars>>

\* main: --current prints the current version and returns
ShowCurrent ==
    /\ pc = "current_flag"
    /\ IF args.current
       THEN Finish("current") /\ Stage("show_current")
       ELSE Goto("get_latest_release") /\ UNCHANGED stages
    /\ UNCHANGED <<fs, dirs, envVars, mainVars, darVars>>

\* get_latest_release, then target_version = tag_name.trim_start_matches('v')
GetLatestRelease ==
    /\ pc = "get_latest_release"
    /\ Stage("resolve")
    /\ LET tag == RequestTag(args.target_version)
           found == IF tag = None THEN Some(LatestTag)
                    ELSE IF Unwrap(tag) \in RegistryTags THEN tag ELSE None
       IN \/ /\ Fail("Failed to fetch release information from GitHub", <<>>)
             /\ UNCHANGED <<release, target_version>>
          \/ /\ Fail("Failed to fetch release: HTTP", <<>>)
             /\ UNCHANGED <<release, target_version>>
          \/ /\ found # None
             /\ Fail("Failed to parse release information", <<>>)
             /\ UNCHANGED <<release, target_version>>
          \/ /\ found # None
             /\ \E assets \in AssetLists(binary_name) :
                  release' = [tag_name |-> Unwrap(found), assets |-> assets]
             /\ target_version' = TrimStartMatches(release'.tag_name, "v")
             /\ Goto("check_up_to_date")
    /\ UNCHANGED <<fs, dirs, envVars, binary_path, is_new_install, current_version,
                   asset, install_path, darVars>>

\* main: already up to date?
CheckUpToDate ==
    /\ pc = "check_up_to_date"
    /\ Stage("decide")
    /\ IF UpToDate(is_new_install, args.force, current_version, target_version)
       THEN Finish("up_to_date")
       ELSE Goto("select_asset")
    /\ UNCHANGED <<fs, dirs, envVars, mainVars, darVars>>

\* Mutant of SelectAsset: the default install directory is created before
\* the asset is looked up.
SelectAssetAfterMkdir ==
    /\ pc = "select_asset"
    /\ Stage("select")
    /\ dirs' = IF is_new_install THEN dirs \cup DirPrefixes(HomeBinDir) ELSE dirs
    /\ LET target_arch == GetTargetArch(host)
           asset_name == AssetName(binary_name, target_arch)
           hit == FindAsset(release.assets, asset_name)
       IN IF hit = None
          THEN /\ Fail("Could not find binary for architecture",
                       <<target_arch, Join(AssetNames(release.assets), <<",", " ">>)>>)
               /\ UNCHANGED asset
          ELSE /\ asset' = Unwrap(hit)
               /\ Goto("install_path")
    /\ UNCHANGED <<fs, envVars, binary_path, is_new_install, current_version,
                   release, target_version, install_path, darVars>>

\* main: pick the asset named "<binary_name>-<target_arch>"
SelectAsset ==
    /\ pc = "select_asset"
    /\ Stage("select")
    /\ LET target_arch == GetTargetArch(host)
           asset_name == AssetName(binary_name, target_arch)
           hit == FindAsset(release.assets, asset_name)
       IN IF hit = None
          THEN /\ Fail("Could not find binary for architecture",
                       <<target_arch, Join(AssetNames(release.assets), <<",", " ">>)>>)
               /\ UNCHANGED asset
          ELSE /\ asset' = Unwrap(hit)
               /\ Goto("install_path")
    /\ UNCHANGED <<fs, dirs, envVars, binary_path, is_new_install, current_version,
                   release, target_version, install_path, darVars>>

\* main: install_path is the located binary, or $HOME/.mq/bin/<binary_name>
\* after create_dir_all
InstallPath ==
    /\ pc = "install_path"
    /\ Stage("install_path")
    /\ IF binary_path # None
       THEN /\ install_path' = Unwrap(binary_path)
            /\ Goto("confirm")
            /\ UNCHANGED dirs
       ELSE \/ /\ Fail("Failed to get HOME directory", <<>>)
               /\ UNCHANGED <<install_path, dirs>>
            \/ /\ Fail("Failed to create installation directory", <<>>)
               /\ \E k \in 0..(Len(HomeBinDir) - 1) :
                    dirs' = dirs \cup DirPrefixes(SubSeq(HomeBinDir, 1, k))
               /\ UNCHANGED install_path
            \/ /\ dirs' = dirs \cup DirPrefixes(HomeBinDir)
               /\ install_path' = PathJoin(HomeBinDir, binary_name)
               /\ Goto("confirm")
    /\ UNCHANGED <<fs, envVars, binary_path, is_new_install, current_version,
                   release, target_version, asset, darVars>>

\* ------------------------------------------------ file system operations
\* Program constant: the read buffer of the download loop, vec![0; 8192]
ChunkSize == 8192

Min(a, b) == IF a < b THEN a ELSE b

\* fs::copy(from, to) returning Ok: `to` gets the bytes and permissions of
\* `from`.  The destination is opened with truncation before the source is
\* read, so copying a file onto itself leaves it empty.
CopyFs(f, from, to) ==
    IF from = to THEN [f EXCEPT ![to] = File(<<>>, f[from].mode)]
    ELSE [f EXCEPT ![to] = f[from]]

\* fs::remove_file(path) returning Ok
RemoveFs(f, path) == [f EXCEPT ![path] = Absent]

\* File::create inside fs::write: creates the file or truncates it
CreateFs(f, path) ==
    [f EXCEPT ![path] = File(<<>>, IF f[path].mode = "absent" THEN "0o644" ELSE f[path].mode)]

\* write_all inside fs::write, having written `data`
WriteFs(f, path, data) == [f EXCEPT ![path] = File(data, f[path].mode)]

\* fs::set_permissions(path, 0o755) returning Ok
ChmodFs(f, path) == [f EXCEPT ![path] = File(f[path].data, "0o755")]

\* fs::rename(from, to) returning Ok: `to` is replaced in one step
RenameFs(f, from, to) ==
    IF from = to THEN f
    ELSE [f EXCEPT ![to] = f[from], ![from] = Absent]

\* --------------------------------------------------- download_and_replace
\* Mutant of Confirm: the asset is fetched first and the prompt comes after
\* the download.
ConfirmAfterFetch ==
    /\ pc = "confirm"
    /\ \E body \in Bodies : response' = Some(<<>>) /\ buffer' = body
    /\ IF ~args.force /\ ~is_new_install
       THEN /\ stages' = stages \o <<"download", "confirm">>
            /\ \E line \in InputLines :
                 /\ input' = Some(line)
                 /\ IF Declined(line)
                    THEN Fail("Update cancelled by user", <<>>)
                    ELSE Goto("backup")
       ELSE /\ Goto("backup")
            /\ stages' = Append(stages, "download")
            /\ UNCHANGED input
    /\ UNCHANGED <<fs, dirs, envVars, mainVars>>

\* The confirmation prompt, shown unless --force or a new install
Confirm ==
    /\ pc = "confirm"
    /\ IF ~args.force /\ ~is_new_install
       THEN /\ Stage("confirm")
            /\ \/ /\ Fail("stdout flush failed", <<>>)
                  /\ UNCHANGED input
               \/ /\ Fail("stdin read_line failed", <<>>)
                  /\ UNCHANGED input
               \/ \E line \in InputLines :
                    /\ input' = Some(line)
                    /\ IF Declined(line)
                       THEN Fail("Update cancelled by user", <<>>)
                       ELSE Goto("download")
       ELSE /\ Goto("download")
            /\ UNCHANGED <<input, stages>>
    /\ UNCHANGED <<fs, dirs, envVars, mainVars, response, buffer>>

\* client.get(download_url).send() and the status check
DownloadSend ==
    /\ pc = "download"
    /\ Stage("download")
    /\ \/ /\ Fail("Failed to download binary", <<>>)
          /\ UNCHANGED response
       \/ /\ Fail("Failed to download binary: HTTP", <<>>)
          /\ UNCHANGED response
       \/ /\ \E body \in Bodies : response' = Some(body)
          /\ Goto("download_read")
    /\ UNCHANGED <<fs, dirs, envVars, mainVars, input, buffer>>

\* One iteration of the read loop: Ok(0) ends it, Ok(n) appends n bytes
DownloadRead ==
    /\ pc = "download_read"
    /\ LET rest == Unwrap(response)
       IN \/ /\ Fail("Download failed", <<>>)
             /\ UNCHANGED <<response, buffer>>
          \/ /\ Len(rest) = 0
             /\ Goto("backup")
             /\ UNCHANGED <<response, buffer>>
          \/ /\ \E n \in 1..Min(ChunkSize, Len(rest)) :
                  /\ buffer' = buffer \o SubSeq(rest, 1, n)
                  /\ response' = Some(SubSeq(rest, n + 1, Len(rest)))
             /\ Goto("download_read")
    /\ UNCHANGED <<fs, dirs, envVars, mainVars, input, stages>>

\* Create backup: fs::copy(mq_path, backup_path) when mq_path exists
Backup ==
    /\ pc = "backup"
    /\ IF Exists(install_path)
       THEN /\ Stage("backup")
            /\ \/ /\ Fail("Failed to create backup", <<>>)
                  /\ \/ UNCHANGED fs
                     \/ \E part \in Prefixes(fs[install_path].data) :
                          fs' = [fs EXCEPT ![backup_path] = File(part, "0o644")]
               \/ /\ fs' = CopyFs(fs, install_path, backup_path)
                  /\ Goto("clean_temp")
       ELSE /\ Goto("clean_temp")
            /\ UNCHANGED <<fs, stages>>
    /\ UNCHANGED <<dirs, envVars, mainVars, darVars>>

\* Clean up any existing temp file; the result of remove_file is dropped
CleanTemp ==
    /\ pc = "clean_temp"
    /\ IF Exists(temp_path)
       THEN \/ fs' = RemoveFs(fs, temp_path)
            \/ UNCHANGED fs
       ELSE UNCHANGED fs
    /\ Goto("write_temp")
    /\ UNCHANGED <<dirs, envVars, mainVars, darVars, stages>>

\* fs::write(temp_path, buffer), first half: create or truncate
WriteTempOpen ==
    /\ pc = "write_temp"
    /\ Stage("temp_write")
    /\ \/ /\ Fail("Failed to write new binary to temporary file", <<>>)
          /\ UNCHANGED fs
       \/ /\ fs' = CreateFs(fs, temp_path)
          /\ Goto("write_temp_data")
    /\ UNCHANGED <<dirs, envVars, mainVars, darVars>>

\* fs::write(temp_path, buffer), second half: write_all
WriteTempData ==
    /\ pc = "write_temp_data"
    /\ \/ /\ \E part \in Prefixes(buffer) : fs' = WriteFs(fs, temp_path, part)
          /\ Fail("Failed to write new binary to temporary file", <<>>)
       \/ /\ fs' = WriteFs(fs, temp_path, buffer)
          /\ Goto("set_permissions")
    /\ UNCHANGED <<dirs, envVars, mainVars, darVars, stages>>

\* #[cfg(unix)] fs::metadata + fs::set_permissions(temp_path, 0o755)
SetPermissions ==
    /\ pc = "set_permissions"
    /\ IF CfgUnix(host)
       THEN /\ Stage("set_permissions")
            /\ \/ /\ Fail("metadata failed", <<>>)
                  /\ UNCHANGED fs
               \/ /\ Fail("set_permissions failed", <<>>)
                  /\ UNCHANGED fs
               \/ /\ fs' = ChmodFs(fs, temp_path)
                  /\ Goto("rename")
       ELSE /\ Goto("rename")
            /\ UNCHANGED <<fs, stages>>
    /\ UNCHANGED <<dirs, envVars, mainVars, darVars>>

\* Mutant of Rename: a failed rename is retried from the temp write.
RenameWithRetry ==
    /\ pc = "rename"
    /\ Stage("rename")
    /\ \/ /\ Goto("write_temp")
          /\ UNCHANGED fs
       \/ /\ fs' = RenameFs(fs, temp_path, install_path)
          /\ Goto("remove_backup")
    /\ UNCHANGED <<dirs, envVars, mainVars, darVars>>

\* Atomic rename: fs::rename(temp_path, mq_path)
Rename ==
    /\ pc = "rename"
    /\ Stage("rename")
    /\ \/ /\ Fail("Failed to replace binary", <<>>)
          /\ UNCHANGED fs
       \/ /\ fs' = RenameFs(fs, temp_path, install_path)
          /\ Goto("remove_backup")
    /\ UNCHANGED <<dirs, envVars, mainVars, darVars>>

\* Remove backup if update succeeded; the result of remove_file is dropped
RemoveBackup ==
    /\ pc = "remove_backup"
    /\ IF Exists(backup_path)
       THEN /\ Stage("cleanup")
            /\ \/ fs' = RemoveFs(fs, backup_path)
               \/ UNCHANGED fs
       ELSE UNCHANGED <<fs, stages>>
    /\ Goto("report")
    /\ UNCHANGED <<dirs, envVars, mainVars, darVars>>

\* main: the final report after download_and_replace returned Ok
Report ==
    /\ pc = "report"
    /\ Stage("report")
    /\ IF is_new_install THEN Finish("installed") ELSE Finish("updated")
    /\ UNCHANGED <<fs, dirs, envVars, mainVars, darVars>>

\* ---------------------------------------------------------- specification
Next ==
    \/ GetBinaryPath
    \/ GetBinaryVersion
    \/ ShowCurrent
    \/ GetLatestRelease
    \/ CheckUpToDate
    \/ SelectAsset
    \/ InstallPath
    \/ Confirm
    \/ DownloadSend
    \/ DownloadRead
    \/ Backup
    \/ CleanTemp
    \/ WriteTempOpen
    \/ WriteTempData
    \/ SetPermissions
    \/ Rename
    \/ RemoveBackup
    \/ Report

Spec == Init /\ [][Next]_vars

\* -------------------------------------------------------------- outcomes
Done == pc = "exit" /\ exit_code = Some(0)
Failed == pc = "exit" /\ exit_code = Some(1)
Cancelled == error = Some(Err("Update cancelled by user", <<>>))
Success == report \in {Some("installed"), Some("updated")}
Ran(stage) == stage \in Range(stages)
PathKnown == install_path \in AllPaths
DownloadComplete == response = Some(<<>>)
\* same presence and same bytes
SameBytes(a, b) == (a.mode = "absent") = (b.mode = "absent") /\ a.data = b.data
SiblingsDistinct == install_path \notin {backup_path, temp_path}

\* ---------------------------------------------------------------- claims
\* C1: at every state of a run, the file at targetPath holds either the
\* complete pre-run bytes or the complete newly downloaded bytes, never a
\* partial or empty content.
C1_TargetAlwaysOldOrNew ==
    PathKnown =>
        \/ SameBytes(fs[install_path], fs0[install_path])
        \/ /\ DownloadComplete
           /\ Exists(install_path)
           /\ fs[install_path].data = buffer

\* The same property for targets whose file name does not end in ".bak" or
\* ".tmp", where the backup and temp paths differ from the target.
AtomicWhenSiblingsDistinct ==
    (PathKnown /\ SiblingsDistinct) =>
        \/ SameBytes(fs[install_path], fs0[install_path])
        \/ /\ DownloadComplete
           /\ Exists(install_path)
           /\ fs[install_path].data = buffer

\* C2: a run with force = false, isNewInstall = false and currentVersion
\* equal to targetVersion ends in Done reporting "already up to date" and
\* writes nothing: no asset selection, no download, no directory creation,
\* and the file system is as it was when the run started.
C2_UpToDateNoWrites ==
    (Ran("decide") /\ ~args.force /\ ~is_new_install
        /\ current_version = Some(target_version)) =>
        /\ Done
        /\ report = Some("up_to_date")
        /\ error = None
        /\ fs = fs0
        /\ dirs = dirs0
        /\ stages = <<"locate", "current_version", "resolve", "decide">>
        /\ response = None
        /\ buffer = <<>>

C2_Witness ==
    /\ report = Some("up_to_date")
    /\ current_version = Some(V052)
    /\ args.target_version = Some(V052)

\* C3: after a run that reports success no file exists at the backup path
\* and none at the temp path.
C3_SuccessLeavesNoBackupOrTemp ==
    Success => (~Exists(backup_path) /\ ~Exists(temp_path))

\* C4: if the rename of the temp path onto targetPath fails, the run ends
\* in Failed, targetPath holds exactly its pre-run bytes, the temp file and
\* (when targetPath existed before the run) the backup file are on disk, and
\* nothing runs after the rename.
C4_RenameFailureLeavesTarget ==
    (error = Some(Err("Failed to replace binary", <<>>))) =>
        /\ Failed
        /\ SameBytes(fs[install_path], fs0[install_path])
        /\ Exists(temp_path)
        /\ (fs0[install_path].mode # "absent") => Exists(backup_path)
        /\ stages[Len(stages)] = "rename"

\* The same property when the backup and temp paths differ from the target.
RenameFailureWhenSiblingsDistinct ==
    SiblingsDistinct => C4_RenameFailureLeavesTarget

\* C5: backup copy, temp write and rename run only after the user confirmed,
\* or with --force, or on a new install; a cancelled run ended at the prompt
\* and has changed neither a file nor a directory.
C5_ReplaceOnlyAfterConfirm ==
    LET confirmed == /\ input # None
                     /\ Trim(Unwrap(input)) \in {<<>>, <<"y">>, <<"Y">>}
    IN /\ (Ran("backup") \/ Ran("temp_write") \/ Ran("rename") \/ fs # fs0) =>
              (args.force \/ is_new_install \/ confirmed)
       /\ Cancelled =>
              /\ Failed
              /\ stages[Len(stages)] = "confirm"
              /\ ~confirmed
              /\ fs = fs0
              /\ dirs = dirs0

C5_Witness ==
    /\ Ran("rename")
    /\ ~args.force
    /\ ~is_new_install
    /\ input = Some(<<" ","Y","\n">>)
    /\ fs # fs0

\* C6: every run whose binary replacement succeeds passes through a
\* verification step before Done.
C6_SuccessPassesVerification ==
    Success => Ran("verify")

\* C7: the run skips asset selection and replacement exactly when
\* !force && !isNewInstall && currentVersion == targetVersion; with any two
\* different version strings, or an unknown current version, it proceeds to
\* asset selection.
C7_SkipIffExactEqual ==
    Ran("decide") =>
        IF ~args.force /\ ~is_new_install /\ current_version # None
              /\ Unwrap(current_version) = target_version
        THEN report = Some("up_to_date") /\ ~Ran("select")
        ELSE report # Some("up_to_date") /\ (pc = "select_asset" \/ Ran("select"))

C7_Witness ==
    /\ Ran("select")
    /\ ~args.force
    /\ current_version = Some(V052)
    /\ target_version = V0512

\* C8: on a new install a successful run has created the default install
\* directory with its parents, never showed the prompt, holds the new bytes
\* at the default path and reports "installed".
C8_NewInstallInstalls ==
    (is_new_install /\ Success) =>
        /\ DirPrefixes(HomeBinDir) \subseteq dirs
        /\ ~Ran("confirm")
        /\ ~Cancelled
        /\ report = Some("installed")
        /\ install_path = PathJoin(HomeBinDir, binary_name)
        /\ Exists(install_path)
        /\ fs[install_path].data = buffer

\* The same property when the backup and temp paths differ from the target.
NewInstallWhenSiblingsDistinct ==
    SiblingsDistinct => C8_NewInstallInstalls

\* C9: asset selection returns an asset named exactly
\* "<binaryName>-<platformTriple>" whenever the release has one and fails
\* whenever it has none; a name that contains, prefixes or extends the
\* expected name is never selected.
C9_ExactAssetMatch ==
    Ran("select") =>
        LET expected == binary_name \o <<"-">> \o GetTargetArch(host)
            offered == \E i \in 1..Len(release.assets) :
                          release.assets[i].name = expected
        IN IF offered
           THEN /\ asset.name = expected
                /\ asset \in Range(release.assets)
                /\ (error # None => Unwrap(error).msg # "Could not find binary for architecture")
           ELSE /\ Failed
                /\ Unwrap(error).msg = "Could not find binary for architecture"
                /\ asset.name = <<>>

C9_Witness ==
    /\ Ran("select")
    /\ Len(release.assets) = 2
    /\ release.assets[1].name = asset.name \o <<".","s","h","a","2","5","6">>
    /\ release.assets[2] = asset

\* The stage in which each fatal error arises.
StageOfError(msg) ==
    CASE msg = "Failed to find binary in PATH" -> "locate"
      [] msg \in {"Failed to parse version output",
                  "Could not parse version from output"} -> "current_version"
      [] msg \in {"Failed to fetch release information from GitHub",
                  "Failed to fetch release: HTTP",
                  "Failed to parse release information"} -> "resolve"
      [] msg = "Could not find binary for architecture" -> "select"
      [] msg \in {"Failed to get HOME directory",
                  "Failed to create installation directory"} -> "install_path"
      [] msg \in {"stdout flush failed", "stdin read_line failed",
                  "Update cancelled by user"} -> "confirm"
      [] msg \in {"Failed to download binary", "Failed to download binary: HTTP",
                  "Download failed"} -> "download"
      [] msg = "Failed to create backup" -> "backup"
      [] msg = "Failed to write new binary to temporary file" -> "temp_write"
      [] msg \in {"metadata failed", "set_permissions failed"} -> "set_permissions"
      [] msg = "Failed to replace binary" -> "rename"

\* C10: every fatal error ends the run at once in Failed with a non-success
\* exit; the failing stage is the last stage executed and no report follows.
C10_FatalErrorAborts ==
    /\ error # None =>
          /\ pc = "exit"
          /\ exit_code = Some(1)
          /\ report = None
          /\ stages[Len(stages)] = StageOfError(Unwrap(error).msg)
    /\ exit_code = Some(1) => error # None

C10_Witness ==
    /\ error = Some(Err("Failed to create backup", <<>>))
    /\ Failed


AssetNotFound ==
    error # None /\ Unwrap(error).msg = "Could not find binary for architecture"

\* C11: if no asset of the release matches the platform triple the run fails
\* before anything is set up: no download is started, the default install
\* directory is not created (also on a new install) and no file is touched.
C11_NoAssetNoSideEffect ==
    AssetNotFound =>
        /\ Failed
        /\ FindAsset(release.assets, AssetName(binary_name, GetTargetArch(host))) = None
        /\ stages[Len(stages)] = "select"
        /\ ~Ran("install_path")
        /\ ~Ran("download")
        /\ response = None
        /\ buffer = <<>>
        /\ install_path \notin AllPaths
        /\ dirs = dirs0
        /\ fs = fs0

C11_Witness ==
    /\ AssetNotFound
    /\ is_new_install
    /\ ~(DirPrefixes(HomeBinDir) \subseteq dirs)
    /\ Len(release.assets) > 0


\* C12 as stated: in every run that reaches the confirmation prompt the
\* asset download has already completed (SelectingAsset, Downloading,
\* ConfirmingReplace), so a user who declines does so after the fetch.
C12_DownloadBeforeConfirm ==
    Ran("confirm") =>
        /\ DownloadComplete
        /\ \E i, j \in 1..Len(stages) :
              i < j /\ stages[i] = "download" /\ stages[j] = "confirm"

\* C12 as amended: the prompt comes after asset selection and before the
\* download; while the prompt is the last stage nothing has been fetched, and
\* a user who declines does so before any byte was requested.
C12_ConfirmBeforeDownload ==
    /\ \A i, j \in 1..Len(stages) :
          /\ (stages[i] = "select" /\ stages[j] \in {"confirm", "download"}) => i < j
          /\ (stages[i] = "confirm" /\ stages[j] = "download") => i < j
    /\ (Ran("confirm") \/ Ran("download")) => Ran("select")
    /\ (Ran("confirm") /\ stages[Len(stages)] = "confirm") =>
          (response = None /\ buffer = <<>>)
    /\ Cancelled => (~Ran("download") /\ response = None /\ buffer = <<>>)

C12_Witness ==
    /\ Ran("confirm")
    /\ Ran("download")
    /\ DownloadComplete
    /\ Len(buffer) = MaxBytes


\* C14: for every targetPath the backup path and the temp path lie in the
\* directory of targetPath and differ from targetPath and from each other,
\* also when the file name already ends in ".tmp" or ".bak"; hence the
\* cleanup of a stale temp file leaves targetPath in place.
C14_SiblingPathsDistinct ==
    PathKnown =>
        /\ backup_path.dir = install_path.dir
        /\ temp_path.dir = install_path.dir
        /\ backup_path # install_path
        /\ temp_path # install_path
        /\ backup_path # temp_path
        /\ (pc = "write_temp" /\ fs0[install_path].mode # "absent")
              => Exists(install_path)


\* C16 as stated: when asset selection fails the error carries the exact
\* expected asset name "<binaryName>-<platformTriple>" and the names of all
\* assets of the release, in the release's order.
C16_ErrorCarriesExpectedName ==
    AssetNotFound =>
        /\ Unwrap(error).detail[1] = binary_name \o <<"-">> \o GetTargetArch(host)
        /\ Unwrap(error).detail[2] = Join(AssetNames(release.assets), <<",", " ">>)

\* C16 as amended: the error carries the platform triple alone (without the
\* binary name) and the names of all assets of the release, in the release's
\* order, separated by ", ".
C16_ErrorCarriesTripleAndNames ==
    AssetNotFound =>
        LET n == Len(release.assets)
            listed[k \in 0..n] ==
                IF k = 0 THEN <<>>
                ELSE IF k = 1 THEN release.assets[1].name
                ELSE listed[k - 1] \o <<",", " ">> \o release.assets[k].name
        IN /\ Unwrap(error).detail[1] = GetTargetArch(host)
           /\ Unwrap(error).detail[1] # binary_name \o <<"-">> \o GetTargetArch(host)
           /\ Unwrap(error).detail[2] = listed[n]

C16_Witness ==
    /\ AssetNotFound
    /\ Len(release.assets) = MaxAssets
    /\ release.assets[1].name # release.assets[2].name


\* A backup or temp file of an earlier run was on disk when the run started.
Leftovers ==
    /\ PathKnown
    /\ \/ fs0[backup_path].mode # "absent" /\ backup_path # install_path
       \/ fs0[temp_path].mode # "absent" /\ temp_path # install_path

\* C19: a run that starts with the backup and/or temp file of an earlier
\* failed run on disk and succeeds ends with targetPath holding exactly its
\* own downloaded bytes, the stale temp file gone and the stale backup
\* overwritten and then deleted.
C19_LeftoversDoNotCorrupt ==
    (Leftovers /\ Success) =>
        /\ Exists(install_path)
        /\ fs[install_path].data = buffer
        /\ ~Exists(temp_path)
        /\ ~Exists(backup_path)

\* What holds of such a run when the backup and temp paths differ from the
\* target: the target holds the new bytes, no temp file remains, and a
\* backup that could not be removed holds the replaced binary, not the
\* stale content.
LeftoversWhenSiblingsDistinct ==
    (Leftovers /\ Success /\ SiblingsDistinct) =>
        /\ Exists(install_path)
        /\ fs[install_path].data = buffer
        /\ ~Exists(temp_path)
        /\ Exists(backup_path) =>
              (fs0[install_path].mode # "absent"
                 /\ fs[backup_path].data = fs0[install_path].data)


\* The order of the pipeline stages in main and download_and_replace.
StageRank(s) ==
    CASE s = "locate" -> 1
      [] s = "current_version" -> 2
      [] s \in {"show_current", "resolve"} -> 3
      [] s = "decide" -> 4
      [] s = "select" -> 5
      [] s = "install_path" -> 6
      [] s = "confirm" -> 7
      [] s = "download" -> 8
      [] s = "backup" -> 9
      [] s = "temp_write" -> 10
      [] s = "set_permissions" -> 11
      [] s = "rename" -> 12
      [] s = "cleanup" -> 13
      [] s = "report" -> 14

\* The order of the control points of the run.
PcRank(p) ==
    CASE p = "get_binary_path" -> 1
      [] p = "get_binary_version" -> 2
      [] p = "current_flag" -> 3
      [] p = "get_latest_release" -> 4
      [] p = "check_up_to_date" -> 5
      [] p = "select_asset" -> 6
      [] p = "install_path" -> 7
      [] p = "confirm" -> 8
      [] p = "download" -> 9
      [] p = "download_read" -> 10
      [] p = "backup" -> 11
      [] p = "clean_temp" -> 12
      [] p = "write_temp" -> 13
      [] p = "write_temp_data" -> 14
      [] p = "set_permissions" -> 15
      [] p = "rename" -> 16
      [] p = "remove_backup" -> 17
      [] p = "report" -> 18
      [] p = "exit" -> 19

\* The terminal state of a run that ended.
Outcome ==
    {o \in {"Done", "Cancelled", "Failed"} :
        \/ o = "Done" /\ Done /\ error = None /\ report # None
        \/ o = "Cancelled" /\ Failed /\ Cancelled /\ report = None
        \/ o = "Failed" /\ Failed /\ error # None /\ ~Cancelled /\ report = None}

\* C17: every run terminates in exactly one of Done, Cancelled or Failed and
\* its stages are executed in pipeline order: no stage twice, none retried.
\* Each step moves the run forward in the control order, except the read
\* loop, whose every further iteration has consumed part of the body.
C17_LinearAndTerminating ==
    /\ [](/\ \A i, j \in 1..Len(stages) :
                i < j => StageRank(stages[i]) < StageRank(stages[j])
          /\ pc = "exit" => Cardinality(Outcome) = 1
          /\ pc # "exit" => (Outcome = {} /\ ENABLED Next))
    /\ [][\/ PcRank(pc') > PcRank(pc)
          \/ /\ pc = "download_read" /\ pc' = "download_read"
             /\ Len(Unwrap(response')) < Len(Unwrap(response))]_vars

C17_Witness ==
    /\ Done
    /\ Len(stages) = 14
    /\ Len(buffer) = MaxBytes


\* The release was fetched and decoded.
Resolved == Ran("resolve") /\ (pc = "check_up_to_date" \/ Ran("decide"))

\* C18: a requested version gets a "v" in front exactly when it does not
\* start with one; normalizing twice changes nothing; a request for X and a
\* request for vX ask for the same tag; the target version derived from the
\* returned tag is the requested version without its prefix; with no
\* requested version the latest release is fetched.
C18_TagNormalization ==
    /\ \A tv \in TargetVersions \ {None} :
          LET r == Unwrap(tv)
          IN /\ (r[1] = "v") => RequestTag(tv) = tv
             /\ (r[1] # "v") => /\ Unwrap(RequestTag(tv))[1] = "v"
                                /\ Tail(Unwrap(RequestTag(tv))) = r
                                /\ RequestTag(Some(<<"v">> \o r)) = RequestTag(tv)
             /\ RequestTag(RequestTag(tv)) = RequestTag(tv)
    /\ Resolved =>
          IF args.target_version = None
          THEN release.tag_name = LatestTag
          ELSE LET r == Unwrap(args.target_version)
                   bare == IF r[1] = "v" THEN Tail(r) ELSE r
               IN /\ release.tag_name = <<"v">> \o bare
                  /\ target_version = bare

C18_Witness ==
    /\ Resolved
    /\ args.target_version = Some(<<"v">> \o V052)
    /\ target_version = V052


\* ---------------------------------------------------------------- platforms
\* Build targets: one per cfg arm of get_target_arch, and two that no arm
\* covers.  uclibc stands for a Linux libc that is neither gnu nor musl.
Platforms ==
    {[os |-> "macos", arch |-> "aarch64", env |-> ""],
     [os |-> "macos", arch |-> "x86_64", env |-> ""],
     [os |-> "linux", arch |-> "x86_64", env |-> "musl"],
     [os |-> "linux", arch |-> "x86_64", env |-> "gnu"],
     [os |-> "linux", arch |-> "x86_64", env |-> "uclibc"],
     [os |-> "linux", arch |-> "aarch64", env |-> "musl"],
     [os |-> "linux", arch |-> "aarch64", env |-> "gnu"],
     [os |-> "linux", arch |-> "aarch64", env |-> "uclibc"],
     [os |-> "windows", arch |-> "x86_64", env |-> "msvc"],
     [os |-> "windows", arch |-> "aarch64", env |-> "msvc"],
     [os |-> "linux", arch |-> "riscv64", env |-> "gnu"]}

\* Runs of `mq-update [--force] [--current]` on every build target.
PlatformArgs ==
    [subcommand : {None}, target_version : {None},
     force : BOOLEAN, current : BOOLEAN]

InitPlatforms == InitFrom(PlatformArgs, Platforms)

SpecPlatforms == InitPlatforms /\ [][Next]_vars

\* The triple names the host's own libc.
LibcOfTriple(h) ==
    LET t == GetTargetArch(h)
        n == Len(t)
    IN IF h.os # "linux" THEN h.env
       ELSE IF SubSeq(t, n - 3, n) = <<"m","u","s","l">> THEN "musl"
       ELSE IF SubSeq(t, n - 2, n) = <<"g","n","u">> THEN "gnu"
       ELSE "other"

\* C15: the triple mapping is total over the supported set, and no host
\* outside it gets a triple; a Linux host whose libc is neither gnu nor musl
\* has no run that selects an asset by the gnu triple.
C15_UnsupportedPlatformRejected ==
    /\ \A h \in Platforms : Compiles(h) => Len(GetTargetArch(h)) > 0
    /\ Ran("select") => LibcOfTriple(host) = host.env

\* What does hold: only targets a cfg arm covers have a run, targets with a
\* gnu or musl libc get triples that differ from one another, and a gnu or
\* musl Linux host selects by the triple of its own libc.
PlatformMappingOnCfgArms ==
    /\ Compiles(host)
    /\ \A h1, h2 \in {h \in Platforms :
                         Compiles(h) /\ (h.os = "linux" => h.env \in {"gnu", "musl"})} :
          GetTargetArch(h1) = GetTargetArch(h2) => h1 = h2
    /\ (Ran("select") /\ host.os = "linux" /\ host.env \in {"gnu", "musl"})
          => LibcOfTriple(host) = host.env


\* ------------------------------------------------------ concurrent updates
\* Two invocations of the same update on a unix host have both passed the
\* prompt and the download of the same asset and run the replacement steps of
\* download_and_replace side by side on one file system.  No I/O fault is
\* injected: every failure below is caused by the other invocation.  An open
\* file follows its inode: a handle records the path the inode has now, and
\* Unlinked once no path names it.
Procs == {"a", "b"}
Unlinked == <<"Unlinked">>

\* The handles after remove_file(path) by some invocation.
AfterRemove(handle, path) ==
    IF handle = Some(path) THEN Unlinked ELSE handle

\* The handles after rename(from, to) by some invocation.
AfterRename(handle, from, to) ==
    IF handle = Some(from) THEN Some(to)
    ELSE IF handle = Some(to) THEN Unlinked
    ELSE handle

\* write(2) of one byte at offset pos; a gap left by a truncation reads as 0.
WriteAt(data, pos, byte) ==
    LET padded == IF Len(data) < pos
                  THEN data \o [i \in 1..(pos - Len(data)) |-> 0]
                  ELSE data
    IN IF Len(padded) = pos THEN Append(padded, byte)
       ELSE [padded EXCEPT ![pos + 1] = byte]

runVars == <<pc, dirs, args, host, fs0, dirs0, mainVars, darVars, endVars, stages>>

InitConcurrent ==
    /\ pc = "backup"
    /\ args = [subcommand |-> None, target_version |-> None,
               force |-> TRUE, current |-> FALSE]
    /\ host = [os |-> "linux", arch |-> "x86_64", env |-> "gnu"]
    /\ \E stale \in BOOLEAN : fs = InitFs(MQ, TRUE, stale, stale, FALSE)
    /\ dirs = DirPrefixes(PathDir) \cup DirPrefixes(HomeDir)
    /\ fs0 = fs
    /\ dirs0 = dirs
    /\ binary_path = Some(PathJoin(PathDir, MQ))
    /\ is_new_install = FALSE
    /\ current_version = Some(V052)
    /\ release = [tag_name |-> LatestTag, assets |-> <<>>]
    /\ target_version = V0512
    /\ asset = [name |-> AssetName(MQ, GetTargetArch(host)),
                browser_download_url |-> "url-gnu"]
    /\ install_path = PathJoin(PathDir, MQ)
    /\ input = None
    /\ response = Some(<<>>)
    /\ buffer = Body(MaxBytes)
    /\ exit_code = None
    /\ error = None
    /\ report = None
    /\ stages = <<>>
    /\ procs = [p \in Procs |-> [pc |-> "backup", file |-> None, pos |-> 0,
                                 result |-> None]]

\* Create backup
BackupP(p) ==
    /\ procs[p].pc = "backup"
    /\ fs' = IF Exists(install_path) THEN CopyFs(fs, install_path, backup_path)
             ELSE fs
    /\ procs' = [procs EXCEPT ![p].pc = "clean_temp"]
    /\ UNCHANGED runVars

\* Clean up any existing temp file
CleanTempP(p) ==
    /\ procs[p].pc = "clean_temp"
    /\ fs' = IF Exists(temp_path) THEN RemoveFs(fs, temp_path) ELSE fs
    /\ procs' = [q \in Procs |->
                   [procs[q] EXCEPT
                      !.file = IF Exists(temp_path) THEN AfterRemove(@, temp_path) ELSE @,
                      !.pc = IF q = p THEN "write_temp" ELSE @]]
    /\ UNCHANGED runVars

\* fs::write(temp_path, buffer): File::create
WriteTempOpenP(p) ==
    /\ procs[p].pc = "write_temp"
    /\ fs' = CreateFs(fs, temp_path)
    /\ procs' = [procs EXCEPT ![p].pc = "write_temp_data",
                              ![p].file = Some(temp_path),
                              ![p].pos = 0]
    /\ UNCHANGED runVars

\* fs::write(temp_path, buffer): write_all, one write(2) of a byte at a time,
\* then the file is closed
WriteTempDataP(p) ==
    /\ procs[p].pc = "write_temp_data"
    /\ IF procs[p].pos < Len(buffer)
       THEN /\ fs' = IF procs[p].file = Unlinked THEN fs
                     ELSE LET path == Unwrap(procs[p].file)
                          IN WriteFs(fs, path,
                                     WriteAt(fs[path].data, procs[p].pos,
                                             buffer[procs[p].pos + 1]))
            /\ procs' = [procs EXCEPT ![p].pos = @ + 1]
       ELSE /\ procs' = [procs EXCEPT ![p].pc = "set_permissions",
                                      ![p].file = None]
            /\ UNCHANGED fs
    /\ UNCHANGED runVars

\* fs::metadata(temp_path)? and fs::set_permissions(temp_path, 0o755)?
SetPermissionsP(p) ==
    /\ procs[p].pc = "set_permissions"
    /\ IF Exists(temp_path)
       THEN /\ fs' = ChmodFs(fs, temp_path)
            /\ procs' = [procs EXCEPT ![p].pc = "rename"]
       ELSE /\ procs' = [procs EXCEPT ![p].pc = "failed",
                                      ![p].result = Some(Err("metadata failed", <<>>))]
            /\ UNCHANGED fs
    /\ UNCHANGED runVars

\* Mutant of RenameP: a missing temp file is not treated as an error.
RenameIgnoringMissingP(p) ==
    /\ procs[p].pc = "rename"
    /\ fs' = IF Exists(temp_path) THEN RenameFs(fs, temp_path, install_path) ELSE fs
    /\ procs' = [q \in Procs |->
                   [procs[q] EXCEPT
                      !.file = IF Exists(temp_path)
                               THEN AfterRename(@, temp_path, install_path) ELSE @,
                      !.pc = IF q = p THEN "remove_backup" ELSE @]]
    /\ UNCHANGED runVars

\* fs::rename(temp_path, mq_path)?
RenameP(p) ==
    /\ procs[p].pc = "rename"
    /\ IF Exists(temp_path)
       THEN /\ fs' = RenameFs(fs, temp_path, install_path)
            /\ procs' = [q \in Procs |->
                           [procs[q] EXCEPT
                              !.file = AfterRename(@, temp_path, install_path),
                              !.pc = IF q = p THEN "remove_backup" ELSE @]]
       ELSE /\ procs' = [procs EXCEPT
                           ![p].pc = "failed",
                           ![p].result = Some(Err("Failed to replace binary", <<>>))]
            /\ UNCHANGED fs
    /\ UNCHANGED runVars

\* Remove backup if update succeeded
RemoveBackupP(p) ==
    /\ procs[p].pc = "remove_backup"
    /\ fs' = IF Exists(backup_path) THEN RemoveFs(fs, backup_path) ELSE fs
    /\ procs' = [procs EXCEPT ![p].pc = "done"]
    /\ UNCHANGED runVars

NextConcurrent ==
    \E p \in Procs :
       \/ BackupP(p)
       \/ CleanTempP(p)
       \/ WriteTempOpenP(p)
       \/ WriteTempDataP(p)
       \/ SetPermissionsP(p)
       \/ RenameP(p)
       \/ RemoveBackupP(p)

SpecConcurrent == InitConcurrent /\ [][NextConcurrent]_vars

\* The file at the target path.
TargetOld == fs[install_path] = fs0[install_path]
TargetNew == fs[install_path].data = buffer

\* Invocation p has renamed the temp file onto the target.
Renamed(p) == procs[p].pc \in {"remove_backup", "done"}

\* C13: two concurrent invocations share the backup and temp paths.  The
\* target holds something other than the old or the complete new binary only
\* after one invocation renamed onto it a temp file that the other is still
\* writing; an invocation fails only after the other has removed or renamed
\* the shared temp file; an invocation that succeeds has replaced the target;
\* and an invocation that ends before the other starts leaves the complete
\* new binary and no sibling file.
C13_ConcurrentRunsRace ==
    /\ (~TargetOld /\ ~TargetNew) =>
          \E p, q \in Procs :
             /\ p # q
             /\ Renamed(p)
             /\ procs[q].file = Some(install_path)
             /\ procs[q].pos < Len(buffer)
    /\ \A p \in Procs :
          procs[p].pc = "failed" =>
             \E q \in Procs \ {p} : procs[q].pc \notin {"backup", "clean_temp"}
    /\ \A p \in Procs : procs[p].pc = "done" => ~TargetOld
    /\ \A p, q \in Procs :
          (p # q /\ procs[p].pc = "done" /\ procs[q].pc = "backup") =>
             /\ fs[install_path] = File(buffer, "0o755")
             /\ ~Exists(temp_path)
             /\ ~Exists(backup_path)

\* One invocation has renamed a file that the other truncated or has only
\* partly written: the target is neither the old nor the new binary.
C13_Witness ==
    \E p, q \in Procs :
       /\ p # q
       /\ Renamed(p)
       /\ procs[q].pc = "write_temp_data"
       /\ ~TargetOld
       /\ Len(fs[install_path].data) < Len(buffer)

\* The other outcome: the rename of one invocation fails because the other
\* removed or renamed the temp file, although no I/O fault occurred.
C13_RenameNeverFails ==
    \A p \in Procs :
       procs[p].result # Some(Err("Failed to replace binary", <<>>))

====
